---- MODULE Spec2Model ----
(***************************************************************************)
(* State-machine model of the cf4ocl context wrapper (src/lib/context.c):  *)
(* the four constructors, cl4_context_destroy, the lazy device list and    *)
(* the accessors, over a heap of context wrappers, device wrappers and     *)
(* native (OpenCL) contexts.                                               *)
(***************************************************************************)
EXTENDS Integers, Sequences, FiniteSets, TLC

\* ------------------------------------------------------------------ bounds
\* Context wrapper objects ever allocated (one per constructor call).
MaxCtx == 2
\* Device wrapper objects ever allocated.
MaxDevW == 4
\* Native contexts ever created.
MaxNat == 1
\* Cap on the reference counts the caller may build up.
MaxRef == 2
\* Longest explicit device list handed to a constructor.
MaxN == 2
\* Longest filter chain.
MaxChain == 2
\* Most devices a machine has.
NDev == 2
\* Client threads that may call the accessors at the same time.
NThreads == 2

\* The null pointer / null handle.
NULL == 0

VARIABLES
    machine,     \* the machine: machine[d] is the platform of device handle d
    ctx,         \* heap of context wrapper objects (struct cl4_context), by address
    dev,         \* heap of device wrapper objects, by address
    nat,         \* native contexts, by handle
    props_live,  \* synthesized property arrays allocated and not yet freed
    last,        \* the last call made by the client, its inputs and its results
    crashed,     \* the process died on an invalid memory access
    thr          \* the client's threads that are inside an accessor call

vars == <<machine, ctx, dev, nat, props_live, last, crashed, thr>>

\* ------------------------------------------------------- the native layer
\* Number of devices of the machine; their handles are 1..ndev.
ndev == Len(machine)

\* Platform of a device handle (CL_DEVICE_PLATFORM).
PlatformOf(d) == machine[d]

\* The machines: devices are enumerated platform by platform, so the platform
\* of the first device is 1 and each next device is on the same platform or
\* on the next one.
Machines ==
    {m \in UNION {[1..n -> 1..NDev] : n \in 0..NDev} :
        /\ (Len(m) > 0 => m[1] = 1)
        /\ \A i \in 1..(Len(m) - 1) : m[i + 1] \in {m[i], m[i] + 1}}

\* clCreateContext on success: a new native context holding the device list,
\* with reference count 1. The new handle is Len(nt) + 1.
clCreateContext(nt, devices, owner) ==
    Append(nt, [rc |-> 1, devs |-> devices, caller |-> owner])

\* clRetainContext on success.
clRetainContext(nt, h) == [nt EXCEPT ![h].rc = @ + 1]

\* clReleaseContext: drops one reference; on a context that is already gone
\* the call fails and the failure is ignored.
clReleaseContext(nt, h) ==
    IF h \in DOMAIN nt /\ nt[h].rc > 0 THEN [nt EXCEPT ![h].rc = @ - 1] ELSE nt

\* A native handle the client may legitimately pass: one it created and still
\* holds a reference to, or one unwrapped from a live context wrapper.
NativeValid(h) == h \in DOMAIN nat /\ nat[h].rc > 0

\* --------------------------------------------------------- wrapper objects
\* cl4_device_new: a new device wrapper, reference count 1.
cl4_device_new(h) ==
    [ref_count |-> 1, cl_object |-> h, freed |-> FALSE, caller |-> 0]

\* Device wrappers for a list of handles, appended to the heap in order.
RECURSIVE WrapDevices(_, _)
WrapDevices(dv, handles) ==
    IF handles = <<>> THEN dv
    ELSE WrapDevices(Append(dv, cl4_device_new(Head(handles))), Tail(handles))

\* Addresses of the n wrappers allocated after heap dv.
NewAddrs(dv, n) == [i \in 1..n |-> Len(dv) + i]

\* cl4_device_unref: decrement; the wrapper is freed when the count reaches 0.
cl4_device_unref(dv, w) ==
    [dv EXCEPT ![w].ref_count = @ - 1, ![w].freed = (dv[w].ref_count - 1 = 0)]

\* The loop of cl4_context_destroy started at index 1.
RECURSIVE ReleaseDevices_SkipFirst(_, _, _)
ReleaseDevices_SkipFirst(dv, devices, n) ==
    IF n <= 1 THEN dv
    ELSE ReleaseDevices_SkipFirst(
            IF devices[n] # NULL THEN cl4_device_unref(dv, devices[n]) ELSE dv,
            devices, n - 1)

\* The loop of cl4_context_destroy over ctx->devices[0..num_devices-1].
RECURSIVE ReleaseDevices(_, _, _)
ReleaseDevices(dv, devices, n) ==
    IF n = 0 THEN dv
    ELSE ReleaseDevices(
            IF devices[n] # NULL THEN cl4_device_unref(dv, devices[n]) ELSE dv,
            devices, n - 1)

\* cl4_wrapper_unref: decrement the count; hand back the wrapped object when
\* the count reached 0, NULL otherwise.
cl4_wrapper_unref(w) ==
    [ref_count |-> w.ref_count - 1,
     ret |-> IF w.ref_count - 1 = 0 THEN w.cl_object ELSE NULL]

\* cl4_context_new_internal: empty fields, reference count 1. An absent device
\* array (devices == NULL) is the empty sequence: g_new0 of 0 elements is NULL
\* and every array the code stores has at least one slot.
\* origin, returned, released and teardown are bookkeeping of the model:
\* which constructor built the wrapper, whether it was handed to the client,
\* how many times the native release callback ran for it, and the steps
\* cl4_context_destroy took, in order, when it tore the wrapper down.
cl4_context_new_internal_StaleCount ==
    [ref_count |-> 1, cl_object |-> NULL, platform |-> NULL,
     num_devices |-> 1, devices |-> <<>>,
     freed |-> FALSE, released |-> 0, origin |-> "none", returned |-> FALSE,
     teardown |-> <<>>]
cl4_context_new_internal ==
    [ref_count |-> 1, cl_object |-> NULL, platform |-> NULL,
     num_devices |-> 0, devices |-> <<>>,
     freed |-> FALSE, released |-> 0, origin |-> "none", returned |-> FALSE,
     teardown |-> <<>>]

\* The heap before anything was allocated.
EmptyHeap == [ctx |-> <<>>, dev |-> <<>>, nat |-> <<>>, props_live |-> 0]

\* The heap as one value.
Heap == [ctx |-> ctx, dev |-> dev, nat |-> nat, props_live |-> props_live]

\* One step of a teardown: what is done, and to which object.
Step(ev, obj) == [ev |-> ev, obj |-> obj]

\* The teardown with the native release done first.
TeardownOrder_NativeFirst(w, context) ==
    <<Step("release_native", context)>>
    \o (IF w.devices # <<>>
        THEN [i \in 1..w.num_devices |-> Step("device_unref", w.devices[i])]
             \o <<Step("free_devices", NULL)>>
        ELSE <<>>)
    \o <<Step("free_ctx", NULL)>>

\* The statements of cl4_context_destroy inside `if (context != NULL)`, in
\* the order they are written: the device wrappers by increasing index, the
\* device array, the platform wrapper if there is one, the wrapper itself,
\* the native context.
TeardownOrder(w, context) ==
    (IF w.devices # <<>>
     THEN [i \in 1..w.num_devices |-> Step("device_unref", w.devices[i])]
          \o <<Step("free_devices", NULL)>>
     ELSE <<>>)
    \o (IF w.platform # NULL THEN <<Step("platform_unref", w.platform)>> ELSE <<>>)
    \o <<Step("free_ctx", NULL), Step("release_native", context)>>

\* Whether cl4_context_destroy tears the wrapper down: the test on the
\* object handed back by cl4_wrapper_unref.
DestroyTearsDown_Always(context) == TRUE
DestroyTearsDown(context) == context # NULL

\* cl4_context_destroy releasing the native context on every call.
cl4_context_destroy_EagerRelease(H, c) ==
    LET u == cl4_wrapper_unref(H.ctx[c])
        context == H.ctx[c].cl_object
        c1 == [H.ctx EXCEPT ![c].ref_count = u.ref_count]
        c2 == IF context # NULL THEN [c1 EXCEPT ![c].released = @ + 1] ELSE c1
        n2 == IF context # NULL THEN clReleaseContext(H.nat, context) ELSE H.nat
    IN  IF u.ret # NULL
        THEN [H EXCEPT
                !.dev = IF c1[c].devices # <<>>
                        THEN ReleaseDevices(H.dev, c1[c].devices, c1[c].num_devices)
                        ELSE H.dev,
                !.ctx = [c2 EXCEPT ![c].freed = TRUE],
                !.nat = n2]
        ELSE [H EXCEPT !.ctx = c2, !.nat = n2]

\* cl4_context_destroy on heap H for the wrapper at address c.
\* ctx->platform is never set by this file, so the platform release is not
\* taken on any path.
cl4_context_destroy(H, c) ==
    LET u == cl4_wrapper_unref(H.ctx[c])
        context == u.ret
        c1 == [H.ctx EXCEPT ![c].ref_count = u.ref_count]
    IN  IF DestroyTearsDown(context)
        THEN [H EXCEPT
                !.dev = IF c1[c].devices # <<>>
                        THEN ReleaseDevices(H.dev, c1[c].devices, c1[c].num_devices)
                        ELSE H.dev,
                !.ctx = [c1 EXCEPT ![c].freed = TRUE, ![c].released = @ + 1,
                                   ![c].teardown = TeardownOrder(c1[c], context)],
                !.nat = clReleaseContext(H.nat, context)]
        ELSE [H EXCEPT !.ctx = c1]

\* A wrapper the client holds: returned by a constructor and not yet freed.
Live(c) == c \in DOMAIN ctx /\ ctx[c].returned /\ ~ctx[c].freed

\* Installs heap H as the next state.
SetHeap(H) ==
    /\ ctx' = H.ctx
    /\ dev' = H.dev
    /\ nat' = H.nat
    /\ props_live' = H.props_live

\* ------------------------------------------------------------ constructors
\* Non-empty device lists of length at most MaxN over the machine's devices.
DeviceLists ==
    UNION {[1..n -> 1..ndev] : n \in 1..MaxN}

\* cl4_context_properties_default for a NULL properties argument: the array
\* is allocated before the platform query, so it is returned (and later freed
\* by the caller) whether or not the query fails.
PropsAllocated(properties) == IF properties THEN 0 ELSE 1

\* The loop of cl4_context_new_from_cldevices_full, also taking a reference
\* to every wrapper that already exists for one of the handles.
CldevicesWrap_RetainExisting(dv, devices) ==
    WrapDevices([w \in DOMAIN dv |->
                    IF \E i \in 1..Len(devices) : devices[i] = dv[w].cl_object
                    THEN [dv[w] EXCEPT !.ref_count = @ + 1]
                    ELSE dv[w]],
                devices)

\* The loop of cl4_context_new_from_cldevices_full that wraps devices[i]
\* into ctx->devices[i].
CldevicesWrap_First(dv, devices) ==
    WrapDevices(dv, [i \in 1..Len(devices) |-> devices[1]])
CldevicesWrap(dv, devices) == WrapDevices(dv, devices)

\* The fields cl4_context_new_from_cldevices_full sets before it creates the
\* native context: the count and the array of new wrappers.
CldevicesFields_NoCount(new, num_devices, wrappers) ==
    [new EXCEPT !.devices = wrappers, !.origin = "cldevices"]
CldevicesFields(new, num_devices, wrappers) ==
    [new EXCEPT !.num_devices = num_devices, !.devices = wrappers,
                !.origin = "cldevices"]

\* cl4_context_new_from_cldevices_full.
\*   properties : TRUE when the client supplies a property array
\*   devices    : the cl_device_id array
\*   platOk     : whether the platform query on the first device succeeds
\*                (the query is made only when no properties are supplied)
\*   createOk   : whether clCreateContext succeeds
cl4_context_new_from_cldevices_full(properties, devices, platOk, createOk) ==
    /\ ~crashed
    /\ Len(ctx) < MaxCtx
    /\ Len(dev) + Len(devices) <= MaxDevW
    /\ createOk => Len(nat) < MaxNat
    /\ properties => platOk
    /\ LET c == Len(ctx) + 1
           num_devices == Len(devices)
           wrappers == NewAddrs(dev, num_devices)
           dev1 == CldevicesWrap(dev, devices)
           \* the error of cl4_context_properties_default is never looked at
           props1 == props_live + PropsAllocated(properties)
           new == CldevicesFields(cl4_context_new_internal, num_devices, wrappers)
       IN  IF createOk
           THEN /\ ctx' = Append(ctx, [new EXCEPT !.cl_object = Len(nat) + 1,
                                                 !.returned = TRUE])
                /\ dev' = dev1
                /\ nat' = clCreateContext(nat, devices, FALSE)
                /\ props_live' = props1 - PropsAllocated(properties)
                /\ last' = [op |-> "new_from_cldevices", ctx |-> c, ret |-> c,
                            err |-> "NONE", devs |-> wrappers,
                            handles |-> devices, properties |-> properties,
                            platOk |-> platOk, nat_before |-> Len(nat)]
           ELSE \* clCreateContext returned NULL: error_handler, then finish
                LET H1 == [ctx |-> Append(ctx, new), dev |-> dev1, nat |-> nat,
                           props_live |-> props1]
                    H2 == cl4_context_destroy(H1, c)
                IN  /\ SetHeap([H2 EXCEPT
                          !.props_live = @ - PropsAllocated(properties)])
                    /\ last' = [op |-> "new_from_cldevices", ctx |-> c,
                                ret |-> NULL, err |-> "OCL", devs |-> wrappers,
                                handles |-> devices, properties |-> properties,
                                platOk |-> platOk, nat_before |-> Len(nat)]
    /\ UNCHANGED <<machine, crashed, thr>>

\* cl4_context_new_from_clcontext.
\*   context  : the native handle to wrap
\*   retainOk : whether clRetainContext succeeds
cl4_context_new_from_clcontext(context, retainOk) ==
    /\ ~crashed
    /\ Len(ctx) < MaxCtx
    /\ NativeValid(context)
    /\ LET c == Len(ctx) + 1
           new == [cl4_context_new_internal EXCEPT
                     !.cl_object = context, !.origin = "clcontext"]
       IN  IF retainOk
           THEN /\ ctx' = Append(ctx, [new EXCEPT !.returned = TRUE])
                /\ nat' = clRetainContext(nat, context)
                /\ UNCHANGED <<dev, props_live>>
                /\ last' = [op |-> "new_from_clcontext", ctx |-> c, ret |-> c,
                            err |-> "NONE", devs |-> <<>>, pre |-> Heap]
           ELSE LET H1 == [Heap EXCEPT !.ctx = Append(ctx, new)]
                IN  /\ SetHeap(cl4_context_destroy(H1, c))
                    /\ last' = [op |-> "new_from_clcontext", ctx |-> c,
                                ret |-> NULL, err |-> "OCL", devs |-> <<>>,
                                pre |-> Heap]
    /\ UNCHANGED <<machine, crashed, thr>>

\* ------------------------------------------------ device selection filters
\* The machine's devices in platform-then-device enumeration order.
Universe == [i \in 1..ndev |-> i]

\* Independent filters: a named predicate and its data.
IndepFilter(fn, data) == [variant |-> "indep", fn |-> fn, data |-> data]

\* The same-platform dependent filter, cl4_devsel_dep_platform.
DepPlatform == [variant |-> "dep", fn |-> "platform", data |-> NULL]

\* A NULL filter function: no independent filter.
NullFilter == [variant |-> "none", fn |-> "NULL", data |-> NULL]

\* The independent filters the client uses.
IndepFilters == {IndepFilter("test_true", NULL), IndepFilter("platform", 2)}

\* The filters the client draws chains from: the pass-all test filter, the
\* platform filter asking for the second platform, and the same-platform
\* filter.
Filters == IndepFilters \cup {DepPlatform}

\* Chains of one to MaxChain filters.
Chains == UNION {[1..n -> Filters] : n \in 1..MaxChain}

\* The predicate of an independent filter on one device.
IndepPass(f, d) ==
    CASE f.fn = "test_true" -> TRUE
      [] f.fn = "platform" -> PlatformOf(d) = f.data
      [] OTHER -> FALSE

\* cl4_devsel_dep_platform: keep the candidates on the platform of the first.
cl4_devsel_dep_platform(list) ==
    IF list = <<>> THEN <<>>
    ELSE SelectSeq(list, LAMBDA d : PlatformOf(d) = PlatformOf(list[1]))

\* One filter applied to the current candidate list, an independent filter
\* removing nothing.
ApplyFilter_KeepAll(f, list) ==
    IF f.variant = "indep" THEN list ELSE cl4_devsel_dep_platform(list)

\* One filter applied to the current candidate list.
ApplyFilter(f, list) ==
    IF f.variant = "indep"
    THEN SelectSeq(list, LAMBDA d : IndepPass(f, d))
    ELSE cl4_devsel_dep_platform(list)

\* The filters applied by variant: the independent ones first, whatever
\* their place in the chain.
RECURSIVE ApplyChain_IndepFirst(_, _)
ApplyChain_IndepFirst(filters, list) ==
    IF filters = <<>> THEN list
    ELSE LET indep == {i \in 1..Len(filters) : filters[i].variant = "indep"}
             k == IF indep = {} THEN 1
                  ELSE CHOOSE i \in indep : \A j \in indep : i <= j
             rest == [i \in 1..(Len(filters) - 1) |->
                        IF i < k THEN filters[i] ELSE filters[i + 1]]
         IN  ApplyChain_IndepFirst(rest, ApplyFilter(filters[k], list))

\* cl4_devsel_select: the filters applied in insertion order, starting from
\* the whole machine.
RECURSIVE ApplyChain(_, _)
ApplyChain(filters, list) ==
    IF filters = <<>> THEN list
    ELSE ApplyChain(Tail(filters), ApplyFilter(Head(filters), list))

cl4_devsel_select(filters) == ApplyChain(filters, Universe)

\* cl4_device_unwrap over an array of device wrappers.
UnwrapDevices(dv, devices) ==
    [i \in 1..Len(devices) |-> dv[devices[i]].cl_object]

\* The test of the filter-chain constructor for an empty selection.
NoDeviceFound_Never(len) == len < 0
NoDeviceFound(len) == len = 0

\* The path cl4_context_new_from_filters_full takes.
\*   properties : TRUE when the client supplies a property array
\*   len        : length of the selection
\*   fail       : the call that fails, if any
FiltersPath(properties, len, fail) ==
    CASE fail = "select" -> "select_error"
      [] fail # "select" /\ NoDeviceFound(len) -> "not_found"
      [] fail = "platform" /\ ~NoDeviceFound(len) -> "platform_error"
      [] fail = "props" /\ ~NoDeviceFound(len) -> "props_error"
      [] fail = "create" /\ ~NoDeviceFound(len) -> "create_error"
      [] OTHER -> "ok"

\* The error the constructor reports on each path.
FiltersError(path) ==
    CASE path = "ok" -> "NONE"
      [] path = "not_found" -> "DEVICE_NOT_FOUND"
      [] path = "select_error" -> "SELECT"
      [] OTHER -> "OCL"

\* The slot of the selection whose platform iteration i of the unwrap loop
\* reads into p_cmp: devices->pdata[0], whatever i is.
PlatformCompared(i) == 1

\* Whether the selection is absent (NULL) when the code after `finish:`
\* reads devices->len: it is on the path where cl4_devsel_select failed.
NullListRead(path) == path = "select_error"

\* What the filter-chain constructor stores on success, the array taken in
\* reverse.
FiltersAdopt_Reversed(new, wrappers, handle) ==
    [new EXCEPT !.cl_object = handle, !.num_devices = Len(wrappers),
                !.devices = [i \in 1..Len(wrappers) |->
                               wrappers[Len(wrappers) + 1 - i]],
                !.returned = TRUE]

\* What the filter-chain constructor stores on success: the length of the
\* selection and the selection's own array of wrappers.
FiltersAdopt_NoDevices(new, wrappers, handle) ==
    [new EXCEPT !.cl_object = handle, !.returned = TRUE]
FiltersAdopt(new, wrappers, handle) ==
    [new EXCEPT !.cl_object = handle, !.num_devices = Len(wrappers),
                !.devices = wrappers, !.returned = TRUE]

\* Body of cl4_context_new_from_filters_full, shared with the shortcut
\* constructor that delegates to it.
\*   opname     : the constructor the client called
\*   properties : TRUE when the client supplies a property array
\*   filters    : the filter chain
\*   fail       : the call that fails: "none", "select" (cl4_devsel_select),
\*                "platform" (a platform query on the first selected device),
\*                "props" (the query inside cl4_context_properties_default),
\*                "create" (clCreateContext)
\*   dies       : whether reading devices->len through a NULL devices kills
\*                the process
FromFilters(opname, given, properties, filters, fail, dies) ==
    /\ ~crashed
    /\ Len(ctx) < MaxCtx
    /\ fail = "props" => ~properties
    /\ LET c == Len(ctx) + 1
           selected == IF fail = "select" THEN <<>> ELSE cl4_devsel_select(filters)
           path == FiltersPath(properties, Len(selected), fail)
           \* the selection holds one reference to each wrapper it returns
           wrappers == NewAddrs(dev, Len(selected))
           dev1 == WrapDevices(dev, selected)
           cl_devices == UnwrapDevices(dev1, wrappers)
           \* g_warn_if_fail(p_cmp == p_base), p_base being the platform of
           \* devices->pdata[0]
           warned == \E i \in 1..Len(selected) :
                        PlatformOf(dev1[wrappers[PlatformCompared(i)]].cl_object)
                            # PlatformOf(dev1[wrappers[1]].cl_object)
           allocated == IF path \in {"props_error", "create_error", "ok"}
                        THEN PropsAllocated(properties) ELSE 0
           new == [cl4_context_new_internal EXCEPT !.origin = "filters"]
           H1 == [ctx |-> Append(ctx, new), dev |-> dev1, nat |-> nat,
                  props_live |-> props_live + allocated]
           \* error_handler: cl4_context_destroy(ctx), then finish
           H2 == cl4_context_destroy(H1, c)
           result == [op |-> opname, ctx |-> c, given |-> given,
                      filters |-> filters,
                      nat_before |-> Len(nat),
                      path |-> path, err |-> FiltersError(path),
                      selected |-> selected, devs |-> wrappers,
                      null_read |-> NullListRead(path),
                      warned |-> warned /\ path \in {"props_error", "create_error", "ok"}]
       IN  /\ Len(dev) + Len(selected) <= MaxDevW
           /\ path = "ok" => Len(nat) < MaxNat
           /\ ~NullListRead(path) => ~dies
           /\ IF path = "ok"
              THEN /\ SetHeap([H1 EXCEPT
                          !.ctx = [H1.ctx EXCEPT
                                     ![c] = FiltersAdopt(new, wrappers, Len(nat) + 1)],
                          !.nat = clCreateContext(nat, cl_devices, FALSE),
                          !.props_live = @ - allocated])
                   /\ last' = result @@ [ret |-> c]
                   /\ crashed' = FALSE
              ELSE /\ SetHeap([H2 EXCEPT !.props_live = @ - allocated])
                   /\ last' = result @@ [ret |-> NULL]
                   /\ crashed' = dies
    /\ UNCHANGED <<machine, thr>>

\* cl4_context_new_from_filters_full.
cl4_context_new_from_filters_full(properties, filters, fail, dies) ==
    FromFilters("new_from_filters", NullFilter, properties, filters, fail, dies)

\* The chain with the same-platform filter put first.
IndepFilterChain_DepFirst(filter) ==
    <<DepPlatform>> \o (IF filter # NullFilter THEN <<filter>> ELSE <<>>)

\* The chain cl4_context_new_from_indep_filter builds: the independent
\* filter when there is one, then the same-platform filter.
IndepFilterChain(filter) ==
    (IF filter # NullFilter THEN <<filter>> ELSE <<>>) \o <<DepPlatform>>

\* cl4_context_new_from_indep_filter: the chain is handed to
\* cl4_context_new_from_filters, that is to the full constructor with no
\* properties.
cl4_context_new_from_indep_filter(filter, fail, dies) ==
    FromFilters("new_from_indep_filter", filter, FALSE, IndepFilterChain(filter),
                fail, dies)

\* ------------------------------------------------------ reference counting
\* cl4_context_ref: one more reference to the wrapper.
cl4_context_ref(c) ==
    /\ ~crashed
    /\ Live(c)
    /\ ctx[c].ref_count < MaxRef
    /\ ctx' = [ctx EXCEPT ![c].ref_count = @ + 1]
    /\ last' = [op |-> "ref", ctx |-> c, pre |-> Heap]
    /\ UNCHANGED <<machine, dev, nat, props_live, crashed, thr>>

\* cl4_context_destroy (also cl4_context_unref) called by the client on a
\* wrapper it holds. The record keeps what the client did just before, so
\* that a ref followed by an unref, or a construction followed by a destroy,
\* can be told apart from a lone destroy.
ContextDestroy(c) ==
    /\ ~crashed
    /\ Live(c)
    /\ SetHeap(cl4_context_destroy(Heap, c))
    /\ last' = [op |-> "destroy", ctx |-> c,
                prev |-> IF last.ctx = c /\ last.op \in {"ref", "new_from_clcontext"}
                         THEN last.op ELSE "other",
                pre2 |-> IF last.ctx = c /\ last.op \in {"ref", "new_from_clcontext"}
                         THEN last.pre ELSE EmptyHeap]
    /\ UNCHANGED <<machine, crashed, thr>>

\* ----------------------------------------------- the lazy device list
\* cl4_context_init_devices on a wrapper whose device array is absent.
\*   c1      : the heap of context wrappers
\*   dv      : the heap of device wrappers
\*   handles : what the CL_CONTEXT_DEVICES query reported
\* num_devices is the size of the answer over sizeof(cl_device_id).
InitNumDevices_OneShort(handles) == Len(handles) - 1
InitNumDevices(handles) == Len(handles)

cl4_context_init_devices(H, c, handles) ==
    [H EXCEPT
       !.ctx = [H.ctx EXCEPT
                  ![c].num_devices = InitNumDevices(handles),
                  ![c].devices = NewAddrs(H.dev, InitNumDevices(handles))],
       !.dev = WrapDevices(H.dev, SubSeq(handles, 1, InitNumDevices(handles)))]

\* The test that guards the lazy initialisation, always taken.
NeedsInit_Always(w) == TRUE

\* The test that guards the lazy initialisation: `if (!ctx->devices)` in
\* cl4_context_init_devices and in both accessors.
NeedsInit(w) == w.devices = <<>>

\* cl4_context_init_devices with a failing query, the count being stored
\* before the error is looked at.
InitDevicesFailed_CountSet(H, c) ==
    [H EXCEPT !.ctx = [H.ctx EXCEPT ![c].num_devices = 1]]

\* cl4_context_init_devices when the CL_CONTEXT_DEVICES query fails: the
\* error is propagated before anything is stored in the wrapper.
InitDevicesFailed(H, c) == H

\* The answer of cl4_context_info(ctx, CL_CONTEXT_DEVICES) when it succeeds.
ContextDevicesInfo(c) == nat[ctx[c].cl_object].devs

\* Whether the lazy initialisation can run to the end within the model's
\* bounds, and whether the native query can succeed at all.
CanQuery(c, infoOk) ==
    /\ infoOk => NativeValid(ctx[c].cl_object)
    /\ infoOk => Len(dev) + Len(ContextDevicesInfo(c)) <= MaxDevW

\* The end of cl4_context_get_device without the range check: the slot at
\* the index is read whatever the index is.
GetDeviceReturn_NoRangeCheck(w, index) ==
    [ret |-> IF index + 1 \in DOMAIN w.devices THEN w.devices[index + 1] ELSE NULL,
     read |-> index + 1]

\* The end of cl4_context_get_device once the device list is there: the
\* g_return_val_if_fail on the index, then ctx->devices[index]. `read` is the
\* slot of the array that was read (counted from 1), 0 when none was.
GetDeviceReturn(w, index) ==
    IF index < w.num_devices
    THEN [ret |-> w.devices[index + 1], read |-> index + 1]
    ELSE [ret |-> NULL, read |-> 0]

\* cl4_context_get_device.
\*   index  : the requested index
\*   infoOk : whether the device-list query succeeds, should it be made
cl4_context_get_device(c, index, infoOk) ==
    /\ ~crashed
    /\ Live(c)
    /\ IF NeedsInit(ctx[c])
       THEN /\ CanQuery(c, infoOk)
            /\ IF infoOk
               THEN LET H == cl4_context_init_devices(Heap, c, ContextDevicesInfo(c))
                    IN  /\ SetHeap(H)
                        /\ last' = [op |-> "get_device", ctx |-> c, index |-> index,
                                    queried |-> TRUE,
                                    err |-> "NONE",
                                    ret |-> GetDeviceReturn(H.ctx[c], index).ret,
                                    read |-> GetDeviceReturn(H.ctx[c], index).read]
               ELSE /\ SetHeap(InitDevicesFailed(Heap, c))
                    /\ last' = [op |-> "get_device", ctx |-> c, index |-> index,
                                queried |-> TRUE, err |-> "OCL", ret |-> NULL,
                                read |-> 0]
       ELSE /\ infoOk
            /\ UNCHANGED <<ctx, dev, nat, props_live>>
            /\ last' = [op |-> "get_device", ctx |-> c, index |-> index,
                        queried |-> FALSE,
                        err |-> "NONE",
                        ret |-> GetDeviceReturn(ctx[c], index).ret,
                        read |-> GetDeviceReturn(ctx[c], index).read]
    /\ UNCHANGED <<machine, crashed, thr>>

\* cl4_context_num_devices.
cl4_context_num_devices(c, infoOk) ==
    /\ ~crashed
    /\ Live(c)
    /\ IF NeedsInit(ctx[c])
       THEN /\ CanQuery(c, infoOk)
            /\ IF infoOk
               THEN LET H == cl4_context_init_devices(Heap, c, ContextDevicesInfo(c))
                    IN  /\ SetHeap(H)
                        /\ last' = [op |-> "num_devices", ctx |-> c,
                                    queried |-> TRUE,
                                    err |-> "NONE", ret |-> H.ctx[c].num_devices]
               ELSE /\ SetHeap(InitDevicesFailed(Heap, c))
                    /\ last' = [op |-> "num_devices", ctx |-> c,
                                queried |-> TRUE,
                                err |-> "OCL",
                                ret |-> InitDevicesFailed(Heap, c).ctx[c].num_devices]
       ELSE /\ infoOk
            /\ UNCHANGED <<ctx, dev, nat, props_live>>
            /\ last' = [op |-> "num_devices", ctx |-> c, queried |-> FALSE,
                        err |-> "NONE", ret |-> ctx[c].num_devices]
    /\ UNCHANGED <<machine, crashed, thr>>

\* ------------------------------------------------------------ the client
\* The client creates a native context itself (clCreateContext) and keeps
\* the reference it gets.
ClientCreateContext(devices) ==
    /\ ~crashed
    /\ Len(nat) < MaxNat
    /\ nat' = clCreateContext(nat, devices, TRUE)
    /\ last' = [op |-> "client_create", ctx |-> NULL]
    /\ UNCHANGED <<machine, ctx, dev, props_live, crashed, thr>>

\* The client releases its own reference to a native context it created.
ClientReleaseContext(h) ==
    /\ ~crashed
    /\ h \in DOMAIN nat
    /\ nat[h].caller
    /\ nat' = [clReleaseContext(nat, h) EXCEPT ![h].caller = FALSE]
    /\ last' = [op |-> "client_release", ctx |-> NULL]
    /\ UNCHANGED <<machine, ctx, dev, props_live, crashed, thr>>

\* The device wrapper the client gets from the platform before it builds any
\* context: device 0 of platform 0. The platform list made that wrapper and
\* holds its one reference on the client's behalf (the client drops it by
\* destroying the platform list).
ClientPlatformGetDevice ==
    /\ ~crashed
    /\ ndev >= 1
    /\ ctx = <<>>
    /\ dev = <<>>
    /\ nat = <<>>
    /\ dev' = <<[cl4_device_new(1) EXCEPT !.caller = 1]>>
    /\ last' = [op |-> "platform_get_device", ctx |-> NULL]
    /\ UNCHANGED <<machine, ctx, nat, props_live, crashed, thr>>

\* The client retains a device wrapper it has just obtained from get_device.
ClientDeviceRef(w) ==
    /\ ~crashed
    /\ last.op = "get_device"
    /\ last.ret = w
    /\ w # NULL
    /\ dev[w].ref_count < MaxRef
    /\ dev' = [dev EXCEPT ![w].ref_count = @ + 1, ![w].caller = @ + 1]
    /\ last' = [op |-> "device_ref", ctx |-> NULL]
    /\ UNCHANGED <<machine, ctx, nat, props_live, crashed, thr>>

\* The client drops a reference it took with ClientDeviceRef.
ClientDeviceUnref(w) ==
    /\ ~crashed
    /\ w \in DOMAIN dev
    /\ dev[w].caller > 0
    /\ dev' = [cl4_device_unref(dev, w) EXCEPT ![w].caller = @ - 1]
    /\ last' = [op |-> "device_unref", ctx |-> NULL]
    /\ UNCHANGED <<machine, ctx, nat, props_live, crashed, thr>>

\* ------------------------------------------------- accessors, step by step
\* The client's threads.
Threads == 1..NThreads

\* No thread is inside a call. pc is where each thread is, on the context
\* it is working on; overlapped records that some call was started while
\* another thread was inside a call.
NoThreads ==
    [pc |-> [t \in Threads |-> "idle"], on |-> [t \in Threads |-> NULL],
     overlapped |-> FALSE]

\* Every thread is outside the accessors.
AllIdle == \A t \in Threads : thr.pc[t] = "idle"

\* Thread t calls get_device or num_devices on context c and evaluates the
\* accessor's test `ctx->devices == NULL`.
ThreadCall(t, c) ==
    /\ ~crashed
    /\ thr.pc[t] = "idle"
    /\ Live(c)
    /\ thr' = [pc |-> [thr.pc EXCEPT ![t] = IF NeedsInit(ctx[c])
                                           THEN "entered" ELSE "return"],
               on |-> [thr.on EXCEPT ![t] = c],
               overlapped |-> thr.overlapped \/ ~AllIdle]
    /\ last' = [op |-> "thread", ctx |-> c]
    /\ UNCHANGED <<machine, ctx, dev, nat, props_live, crashed>>

\* Thread t, inside cl4_context_init_devices, evaluates `!ctx->devices`.
ThreadCheck(t) ==
    /\ ~crashed
    /\ thr.pc[t] = "entered"
    /\ thr' = [thr EXCEPT !.pc[t] = IF NeedsInit(ctx[thr.on[t]])
                                    THEN "init" ELSE "return"]
    /\ last' = [op |-> "thread", ctx |-> thr.on[t]]
    /\ UNCHANGED <<machine, ctx, dev, nat, props_live, crashed>>

\* Thread t, past the test, queries the device list and stores the count,
\* a new array and new device wrappers in the context, whatever the context
\* holds by now.
ThreadInit(t, infoOk) ==
    /\ ~crashed
    /\ thr.pc[t] = "init"
    /\ CanQuery(thr.on[t], infoOk)
    /\ IF infoOk
       THEN SetHeap(cl4_context_init_devices(Heap, thr.on[t],
                                            ContextDevicesInfo(thr.on[t])))
       ELSE SetHeap(InitDevicesFailed(Heap, thr.on[t]))
    /\ thr' = [thr EXCEPT !.pc[t] = "return"]
    /\ last' = [op |-> "thread", ctx |-> thr.on[t]]
    /\ UNCHANGED <<machine, crashed>>

\* Thread t returns from the accessor.
ThreadReturn(t) ==
    /\ ~crashed
    /\ thr.pc[t] = "return"
    /\ thr' = [thr EXCEPT !.pc[t] = "idle", !.on[t] = NULL]
    /\ last' = [op |-> "thread", ctx |-> NULL]
    /\ UNCHANGED <<machine, ctx, dev, nat, props_live, crashed>>

\* ------------------------------------------------------------------ system
\* The calls that can be made to fail inside the filter-chain constructor.
Failures == {"none", "select", "platform", "props", "create"}

Init ==
    /\ machine \in Machines
    /\ ctx = <<>>
    /\ dev = <<>>
    /\ nat = <<>>
    /\ props_live = 0
    /\ last = [op |-> "init", ctx |-> NULL]
    /\ crashed = FALSE
    /\ thr = NoThreads

Next ==
    \/ \E properties \in BOOLEAN, devices \in DeviceLists,
          platOk \in BOOLEAN, createOk \in BOOLEAN :
          cl4_context_new_from_cldevices_full(properties, devices, platOk, createOk)
    \/ \E properties \in BOOLEAN, filters \in Chains, fail \in Failures,
          dies \in BOOLEAN :
          cl4_context_new_from_filters_full(properties, filters, fail, dies)
    \/ \E filter \in IndepFilters \cup {NullFilter}, fail \in Failures,
          dies \in BOOLEAN :
          cl4_context_new_from_indep_filter(filter, fail, dies)
    \/ \E context \in 1..MaxNat, retainOk \in BOOLEAN :
          cl4_context_new_from_clcontext(context, retainOk)
    \/ \E c \in 1..MaxCtx : cl4_context_ref(c)
    \/ \E c \in 1..MaxCtx : ContextDestroy(c)
    \/ \E c \in 1..MaxCtx, index \in 0..(MaxN - 1), infoOk \in BOOLEAN :
          cl4_context_get_device(c, index, infoOk)
    \/ \E c \in 1..MaxCtx, infoOk \in BOOLEAN : cl4_context_num_devices(c, infoOk)
    \/ \E devices \in DeviceLists : ClientCreateContext(devices)
    \/ \E h \in 1..MaxNat : ClientReleaseContext(h)
    \/ \E w \in 1..MaxDevW : ClientDeviceRef(w)
    \/ \E w \in 1..MaxDevW : ClientDeviceUnref(w)

Spec == Init /\ [][Next]_vars

\* The client of context_ref_unref_test: it first takes a device wrapper
\* from the platform, then builds contexts from explicit device handles,
\* uses and destroys them, and drops the references it holds.
NextHeld ==
    \/ ClientPlatformGetDevice
    \/ \E properties \in BOOLEAN, devices \in DeviceLists,
          platOk \in BOOLEAN, createOk \in BOOLEAN :
          cl4_context_new_from_cldevices_full(properties, devices, platOk, createOk)
    \/ \E c \in 1..MaxCtx : cl4_context_ref(c)
    \/ \E c \in 1..MaxCtx : ContextDestroy(c)
    \/ \E c \in 1..MaxCtx, index \in 0..(MaxN - 1), infoOk \in BOOLEAN :
          cl4_context_get_device(c, index, infoOk)
    \/ \E w \in 1..MaxDevW : ClientDeviceRef(w)
    \/ \E w \in 1..MaxDevW : ClientDeviceUnref(w)

SpecHeld == Init /\ [][NextHeld]_vars

\* The client with threads: it wraps native contexts it created, lets its
\* threads call the accessors without synchronization, and destroys a
\* wrapper once no thread is inside a call.
NextRace ==
    \/ \E devices \in DeviceLists : ClientCreateContext(devices)
    \/ \E context \in 1..MaxNat, retainOk \in BOOLEAN :
          cl4_context_new_from_clcontext(context, retainOk)
    \/ \E t \in Threads, c \in 1..MaxCtx : ThreadCall(t, c)
    \/ \E t \in Threads : ThreadCheck(t)
    \/ \E t \in Threads, infoOk \in BOOLEAN : ThreadInit(t, infoOk)
    \/ \E t \in Threads : ThreadReturn(t)
    \/ \E c \in 1..MaxCtx : AllIdle /\ ContextDestroy(c)

SpecRace == Init /\ [][NextRace]_vars

\* ------------------------------------------------------------------ claims
\* The four constructors, as recorded in last.op.
ConstructorOps ==
    {"new_from_cldevices", "new_from_clcontext", "new_from_filters",
     "new_from_indep_filter"}

\* The two constructors that select devices through a filter chain.
FilterOps == {"new_from_filters", "new_from_indep_filter"}

\* The last call was a constructor that failed with one of the recoverable
\* errors: empty selection, platform query failure, native creation failure,
\* native retain failure.
FailedRecoverably ==
    /\ last.op \in ConstructorOps
    /\ last.err \in {"DEVICE_NOT_FOUND", "OCL"}
    /\ ~crashed

\* C1: when a constructor fails with a recoverable error, then on return the
\* context wrapper object is freed, every device wrapper created or obtained
\* for it has been released, and no synthesized property array is left.
C1_FailedConstructorReleasesAll ==
    FailedRecoverably =>
        /\ ctx[last.ctx].freed
        /\ \A i \in 1..Len(last.devs) : dev[last.devs[i]].freed
        /\ props_live = 0

\* C2: for a wrapper a constructor returned, the native release callback has
\* run exactly once when the count has reached 0 (and the wrapper is freed
\* then), and has not run at all while the count is above 0.
C2_NativeReleaseExactlyOnce ==
    \A c \in DOMAIN ctx :
        ctx[c].returned =>
            \/ ctx[c].ref_count >= 1 /\ ctx[c].released = 0 /\ ~ctx[c].freed
            \/ ctx[c].ref_count = 0 /\ ctx[c].released = 1 /\ ctx[c].freed

\* C2 witness: a wrapper that was retained, then destroyed twice; the second
\* destroy took the count to 0 and ran the release callback once.
C2_Witness ==
    /\ last.op = "destroy"
    /\ ctx[last.ctx].returned
    /\ ctx[last.ctx].freed
    /\ ctx[last.ctx].released = 1
    /\ \E c \in DOMAIN ctx : c # last.ctx /\ Live(c) /\ ctx[c].released = 0

\* C3: a ref takes the count from n to n + 1 and changes nothing else; the
\* unref that follows it puts the whole heap back: count n, the devices and
\* the native context untouched, nothing released.
C3_RefThenUnrefRestores ==
    /\ last.op = "ref" =>
          Heap = [last.pre EXCEPT
                    !.ctx = [last.pre.ctx EXCEPT ![last.ctx].ref_count = @ + 1]]
    /\ (last.op = "destroy" /\ last.prev = "ref") =>
          /\ Heap = last.pre2
          /\ ctx[last.ctx].ref_count >= 1
          /\ ~ctx[last.ctx].freed

\* C3 witness: a context with two devices, count 1, was retained and released.
C3_Witness ==
    /\ last.op = "destroy"
    /\ last.prev = "ref"
    /\ ctx[last.ctx].ref_count = 1
    /\ ctx[last.ctx].num_devices = 2

\* The last call ran the filter-chain constructor on a chain whose selection
\* came back empty.
EmptySelection ==
    /\ last.op \in FilterOps
    /\ last.path # "select_error"
    /\ cl4_devsel_select(last.filters) = <<>>

\* C4: a filter chain that selects no device makes the constructor fail with
\* DEVICE_NOT_FOUND, return no context and create no native context.
C4_EmptySelectionNotFound ==
    EmptySelection =>
        /\ last.err = "DEVICE_NOT_FOUND"
        /\ last.ret = NULL
        /\ ~ctx[last.ctx].returned
        /\ Len(nat) = last.nat_before

\* C4 witness: the machine has devices, and the chain matched none of them.
C4_Witness ==
    /\ EmptySelection
    /\ ndev > 0
    /\ last.err = "DEVICE_NOT_FOUND"

\* The handles a context built from explicit devices was given: the device
\* list its native context was created with.
InputHandles(c) == nat[ctx[c].cl_object].devs

\* C5: a context built from n explicit handles has num_devices = n and its
\* i-th wrapper unwraps to the i-th handle, both right after construction and
\* as reported by num_devices and get_device.
C5_ExplicitDevicesKept ==
    /\ (last.op = "new_from_cldevices" /\ last.err = "NONE") =>
          /\ ctx[last.ret].num_devices = Len(last.handles)
          /\ Len(ctx[last.ret].devices) = Len(last.handles)
          /\ \A i \in 1..Len(last.handles) :
                dev[ctx[last.ret].devices[i]].cl_object = last.handles[i]
    /\ (last.op = "num_devices" /\ ctx[last.ctx].origin = "cldevices") =>
          /\ last.err = "NONE"
          /\ last.ret = Len(InputHandles(last.ctx))
    /\ (last.op = "get_device" /\ ctx[last.ctx].origin = "cldevices"
            /\ last.index < Len(InputHandles(last.ctx))) =>
          /\ last.err = "NONE"
          /\ last.ret # NULL
          /\ dev[last.ret].cl_object = InputHandles(last.ctx)[last.index + 1]

\* C5 witness: get_device(ctx, 1) on a context built from the handles <<2, 1>>
\* returned a wrapper of handle 1.
C5_Witness ==
    /\ last.op = "get_device"
    /\ ctx[last.ctx].origin = "cldevices"
    /\ InputHandles(last.ctx) = <<2, 1>>
    /\ last.index = 1
    /\ last.ret # NULL
    /\ dev[last.ret].cl_object = 1

\* The chain's last filter is the same-platform filter.
EndsWithDepPlatform(filters) ==
    filters # <<>> /\ filters[Len(filters)] = DepPlatform

\* The chain is the same-platform filter after pass-all filters only.
PassAllThenDepPlatform(filters) ==
    /\ EndsWithDepPlatform(filters)
    /\ \A i \in 1..(Len(filters) - 1) : filters[i] = IndepFilter("test_true", NULL)

\* C6: a context built from a chain that ends with the same-platform filter
\* holds at least one device and all its devices are on the platform of its
\* device 0; when only pass-all filters come before and the machine has a
\* device, the selection is not empty.
C6_SamePlatformChain ==
    (last.op \in FilterOps /\ EndsWithDepPlatform(last.filters)) =>
        /\ (PassAllThenDepPlatform(last.filters) /\ ndev >= 1
                /\ last.path # "select_error") =>
              last.err # "DEVICE_NOT_FOUND"
        /\ last.err = "NONE" =>
              /\ ctx[last.ret].num_devices >= 1
              /\ Len(ctx[last.ret].devices) = ctx[last.ret].num_devices
              /\ \A i \in 1..ctx[last.ret].num_devices :
                    PlatformOf(dev[ctx[last.ret].devices[i]].cl_object)
                        = PlatformOf(dev[ctx[last.ret].devices[1]].cl_object)

\* C6 witness: on a machine with two platforms, a pass-all filter and the
\* same-platform filter gave a context without the second platform's device.
C6_Witness ==
    /\ last.op = "new_from_filters"
    /\ last.filters = <<IndepFilter("test_true", NULL), DepPlatform>>
    /\ last.err = "NONE"
    /\ machine = <<1, 2>>
    /\ ctx[last.ret].num_devices = 1

\* The device array of the wrapper is there.
Materialized(c) == ctx[c].devices # <<>>

\* The device list the native context of wrapper c reports.
NativeDevices(c) == nat[ctx[c].cl_object].devs

\* The wrapper's count and wrappers are those of its native context's list.
MatchesNative(c) ==
    /\ ctx[c].num_devices = Len(NativeDevices(c))
    /\ Len(ctx[c].devices) = ctx[c].num_devices
    /\ \A i \in 1..ctx[c].num_devices :
          dev[ctx[c].devices[i]].cl_object = NativeDevices(c)[i]

\* A wrapper built from a native handle that the client still holds.
WrapsNative(c) ==
    c \in DOMAIN ctx /\ ctx[c].origin = "clcontext" /\ Live(c)

\* What C7 says of each state: fresh from the constructor the device list is
\* absent; it is absent or equal to the native list at any time; an accessor
\* that succeeded left it equal to the native list and answered from it.
C7_State ==
    /\ (last.op = "new_from_clcontext" /\ last.err = "NONE") =>
          ~Materialized(last.ret) /\ ctx[last.ret].num_devices = 0
    /\ \A c \in DOMAIN ctx :
          WrapsNative(c) =>
              \/ ~Materialized(c) /\ ctx[c].num_devices = 0
              \/ MatchesNative(c)
    /\ (last.op \in {"get_device", "num_devices"} /\ WrapsNative(last.ctx)
            /\ last.err = "NONE") =>
          /\ Materialized(last.ctx)
          /\ MatchesNative(last.ctx)
          /\ last.op = "num_devices" => last.ret = Len(NativeDevices(last.ctx))
          /\ (last.op = "get_device" /\ last.index < Len(NativeDevices(last.ctx))) =>
                /\ last.ret # NULL
                /\ dev[last.ret].cl_object = NativeDevices(last.ctx)[last.index + 1]

\* What C7 says of each step: only get_device or num_devices on the wrapper
\* makes its device list appear.
C7_Step ==
    \A c \in DOMAIN ctx :
        (WrapsNative(c) /\ ~Materialized(c) /\ ctx'[c].devices # <<>>) =>
            /\ last'.op \in {"get_device", "num_devices"}
            /\ last'.ctx = c

\* C7: a wrapper built from a native handle has no device list until the
\* first get_device or num_devices; once that call succeeds, num_devices is
\* the native context's device count and get_device(i) unwraps to the i-th
\* handle of the native list.
C7_LazyDeviceList == []C7_State /\ [][C7_Step]_vars

\* C7 witness: get_device(ctx, 1) made the device list of a wrapper around a
\* native context of two devices, and returned the second one's wrapper.
C7_Witness ==
    /\ last.op = "get_device"
    /\ WrapsNative(last.ctx)
    /\ last.queried
    /\ last.index = 1
    /\ Len(NativeDevices(last.ctx)) = 2
    /\ last.ret # NULL

\* A context built from explicit devices, and a second wrapper made from its
\* unwrapped native handle, both held by the client.
RoundTripPair(a, b) ==
    /\ Live(a) /\ ctx[a].origin = "cldevices"
    /\ WrapsNative(b)
    /\ ctx[b].cl_object = ctx[a].cl_object

\* C8: the second wrapper of a round trip, once its device list is made,
\* has the first wrapper's num_devices and devices that unwrap to the same
\* handles in the same order; num_devices on it answers the first's count.
C8_RoundTrip ==
    \A a \in DOMAIN ctx, b \in DOMAIN ctx :
        RoundTripPair(a, b) =>
            /\ Materialized(b) =>
                  /\ ctx[b].num_devices = ctx[a].num_devices
                  /\ UnwrapDevices(dev, ctx[b].devices)
                        = UnwrapDevices(dev, ctx[a].devices)
            /\ (last.op = "num_devices" /\ last.ctx = b /\ last.err = "NONE") =>
                  last.ret = ctx[a].num_devices

\* C8 witness: num_devices on the second wrapper of a round trip over two
\* different devices answered 2.
C8_Witness ==
    \E a \in DOMAIN ctx, b \in DOMAIN ctx :
        /\ RoundTripPair(a, b)
        /\ last.op = "num_devices" /\ last.ctx = b /\ last.ret = 2
        /\ UnwrapDevices(dev, ctx[a].devices) = <<2, 1>>

\* C9, construction: a successful construction from a native handle leaves
\* the native reference count one above its value before.
C9_ConstructRetainsOnce ==
    (last.op = "new_from_clcontext" /\ last.err = "NONE") =>
        nat[ctx[last.ret].cl_object].rc
            = last.pre.nat[ctx[last.ret].cl_object].rc + 1

\* C9, round trip: construct then destroy leaves the native reference count
\* at its value before construction, and the native context alive.
C9_ConstructDestroyRestores ==
    (last.op = "destroy" /\ last.prev = "new_from_clcontext") =>
        /\ ctx[last.ctx].freed
        /\ nat[ctx[last.ctx].cl_object].rc
              = last.pre2.nat[ctx[last.ctx].cl_object].rc
        /\ nat[ctx[last.ctx].cl_object].rc >= 1

\* C9, destruction: the destroy that takes a wrapper built from a native
\* handle to count 0 lowers the native reference count by exactly one.
C9_DestroyReleasesOnce ==
    [][\A c \in DOMAIN ctx :
          (last'.op = "destroy" /\ last'.ctx = c /\ WrapsNative(c)
              /\ ctx[c].ref_count = 1) =>
              nat'[ctx[c].cl_object].rc = nat[ctx[c].cl_object].rc - 1]_vars

\* C9: all three together.
C9_NativeCountBalanced ==
    /\ []C9_ConstructRetainsOnce
    /\ []C9_ConstructDestroyRestores
    /\ C9_DestroyReleasesOnce

\* C10: the destroy that takes a context built from explicit devices to
\* count 0 lowers the count of each device wrapper it owns by exactly one
\* and touches no other device wrapper; a wrapper the client retained is
\* not freed and keeps the client's references.
C10_DestroyReleasesDevices ==
    [][\A c \in DOMAIN ctx :
          (last'.op = "destroy" /\ last'.ctx = c /\ Live(c)
              /\ ctx[c].origin = "cldevices" /\ ctx[c].ref_count = 1) =>
              /\ ctx'[c].freed
              /\ \A w \in DOMAIN dev :
                    IF \E i \in 1..ctx[c].num_devices : ctx[c].devices[i] = w
                    THEN /\ dev'[w].ref_count = dev[w].ref_count - 1
                         /\ dev[w].caller > 0 =>
                               /\ ~dev'[w].freed
                               /\ dev'[w].ref_count = dev[w].caller
                    ELSE dev'[w] = dev[w]]_vars

\* C10 witness: a context built from explicit devices was destroyed, and the
\* device wrapper the client had retained is still there with count 1.
C10_Witness ==
    /\ last.op = "destroy"
    /\ ctx[last.ctx].origin = "cldevices"
    /\ ctx[last.ctx].freed
    /\ ctx[last.ctx].num_devices = 2
    /\ \E i \in 1..2 :
          /\ dev[ctx[last.ctx].devices[i]].caller = 1
          /\ dev[ctx[last.ctx].devices[i]].ref_count = 1
          /\ ~dev[ctx[last.ctx].devices[i]].freed
    /\ \E i \in 1..2 : dev[ctx[last.ctx].devices[i]].freed

\* The steps of the teardown of wrapper c, as the next state records them.
TeardownAfter(c) == ctx'[c].teardown

\* What C11 says of a destroy step on wrapper c.
C11_Step(c) ==
    IF ctx[c].ref_count > 1
    THEN /\ ctx' = [ctx EXCEPT ![c].ref_count = @ - 1]
         /\ dev' = dev
         /\ nat' = nat
    ELSE /\ ctx'[c].freed
         /\ TeardownAfter(c) # <<>>
         /\ TeardownAfter(c)[Len(TeardownAfter(c))]
               = Step("release_native", ctx[c].cl_object)
         /\ \A i \in 1..(Len(TeardownAfter(c)) - 1) :
               TeardownAfter(c)[i].ev # "release_native"
         /\ \A k \in 1..Len(ctx[c].devices) :
               \E i \in 1..(Len(TeardownAfter(c)) - 1) :
                   TeardownAfter(c)[i] = Step("device_unref", ctx[c].devices[k])
         /\ ctx[c].platform # NULL =>
               \E i \in 1..(Len(TeardownAfter(c)) - 1) :
                   TeardownAfter(c)[i].ev = "platform_unref"

\* C11: a destroy that leaves the count above 0 changes only the count
\* (device array, device wrappers and native contexts stay as they were); the
\* destroy that reaches 0 releases every owned device wrapper, and the
\* platform wrapper if there is one, before the native release, which is
\* the last step.
C11_DestroyOrder ==
    [][\A c \in DOMAIN ctx :
          (last'.op = "destroy" /\ last'.ctx = c) => C11_Step(c)]_vars

\* C11 witness: a context of two devices was torn down: two device releases,
\* the array, the wrapper, then the native context.
C11_Witness ==
    /\ last.op = "destroy"
    /\ ctx[last.ctx].freed
    /\ ctx[last.ctx].num_devices = 2
    /\ Len(ctx[last.ctx].teardown) = 5
    /\ ctx[last.ctx].teardown[5].ev = "release_native"

\* The last call was a get_device whose device list was there, or was made
\* by the call, and whose index is not below num_devices.
IndexOutOfRange ==
    /\ last.op = "get_device"
    /\ ctx[last.ctx].devices # <<>>
    /\ last.index >= ctx[last.ctx].num_devices

\* C12: get_device with index >= num_devices, the device list being there
\* after any lazy initialisation, returns no device wrapper, reads no slot
\* of the device array, and sets no error.
C12_IndexOutOfRange ==
    IndexOutOfRange =>
        /\ last.ret = NULL
        /\ last.read = 0
        /\ last.err = "NONE"

\* C12 witness: get_device(ctx, 1) on a wrapper around a native context of
\* one device, the call having made the device list.
C12_Witness ==
    /\ IndexOutOfRange
    /\ last.queried
    /\ last.index = 1
    /\ ctx[last.ctx].num_devices = 1
    /\ last.ret = NULL

\* The last call ran the selection engine to its end.
Selected == last.op \in FilterOps /\ last.path # "select_error"

\* The result of a chain read from its end: the last filter applied to the
\* result of the chain before it.
RECURSIVE InsertionOrderResult(_)
InsertionOrderResult(filters) ==
    IF filters = <<>> THEN Universe
    ELSE ApplyFilter(filters[Len(filters)],
                     InsertionOrderResult(SubSeq(filters, 1, Len(filters) - 1)))

\* The machine has a device on a second platform.
TwoPlatforms == \E d \in 1..ndev : PlatformOf(d) = 2

\* C13: the filters are applied in insertion order whatever their variant,
\* and the order matters: on a machine with two platforms the same-platform
\* filter followed by the predicate "on platform 2" selects nothing, while
\* the predicate followed by the same-platform filter selects the devices of
\* platform 2.
C13_InsertionOrderMatters ==
    /\ Selected => last.selected = InsertionOrderResult(last.filters)
    /\ TwoPlatforms =>
          /\ cl4_devsel_select(<<DepPlatform, IndepFilter("platform", 2)>>) = <<>>
          /\ cl4_devsel_select(<<IndepFilter("platform", 2), DepPlatform>>) # <<>>
          /\ \A i \in DOMAIN cl4_devsel_select(<<IndepFilter("platform", 2), DepPlatform>>) :
                PlatformOf(cl4_devsel_select(<<IndepFilter("platform", 2), DepPlatform>>)[i]) = 2

\* C13 witness: on a two-platform machine the constructor was given the
\* same-platform filter first and found no device, where the other order
\* selects device 2.
C13_Witness ==
    /\ last.op = "new_from_filters"
    /\ last.filters = <<DepPlatform, IndepFilter("platform", 2)>>
    /\ machine = <<1, 2>>
    /\ last.err = "DEVICE_NOT_FOUND"
    /\ cl4_devsel_select(<<IndepFilter("platform", 2), DepPlatform>>) = <<2>>

\* A device passes every independent predicate of the chain.
PassesAll(filters, d) ==
    \A k \in 1..Len(filters) :
        filters[k].variant = "indep" => IndepPass(filters[k], d)

\* The chain holds independent filters only.
OnlyIndep(filters) == \A k \in 1..Len(filters) : filters[k].variant = "indep"

\* C14: the final candidate list holds devices of the machine only, in the
\* machine's order and none twice; each passes every independent predicate
\* of the chain; for a chain of independent filters only it is exactly the
\* sublist of the machine's devices that pass every predicate.
C14_SelectionIsSublist ==
    Selected =>
        /\ \A i \in 1..Len(last.selected) : last.selected[i] \in 1..ndev
        /\ \A i \in 1..Len(last.selected), j \in 1..Len(last.selected) :
              i < j => last.selected[i] < last.selected[j]
        /\ \A i \in 1..Len(last.selected) : PassesAll(last.filters, last.selected[i])
        /\ OnlyIndep(last.filters) =>
              last.selected
                  = SelectSeq(Universe, LAMBDA d : PassesAll(last.filters, d))

\* C14 witness: on a two-platform machine, the pass-all filter and the
\* predicate "on platform 2" selected device 2 alone.
C14_Witness ==
    /\ Selected
    /\ last.filters = <<IndepFilter("test_true", NULL), IndepFilter("platform", 2)>>
    /\ machine = <<1, 2>>
    /\ last.selected = <<2>>
    /\ last.err = "NONE"

\* The chain the shortcut constructor is to build for a predicate.
ShortcutChain(given) ==
    IF given = NullFilter THEN <<DepPlatform>> ELSE <<given, DepPlatform>>

\* C15: the shortcut constructor runs the chain made of the given predicate
\* (none for a null predicate) and then the same-platform filter; its
\* outcome is that of the filter-chain constructor on that chain: not-found
\* exactly when the chain selects nothing, and on success a context over the
\* chain's selection; with the predicate "on platform 2" every device of the
\* context is on platform 2.
C15_ShortcutDelegates ==
    last.op = "new_from_indep_filter" =>
        /\ last.filters = ShortcutChain(last.given)
        /\ last.path # "select_error" =>
              /\ last.selected = cl4_devsel_select(ShortcutChain(last.given))
              /\ last.err = "DEVICE_NOT_FOUND"
                    <=> cl4_devsel_select(ShortcutChain(last.given)) = <<>>
        /\ last.err # "NONE" => last.ret = NULL
        /\ last.err = "NONE" =>
              /\ last.ret # NULL
              /\ ctx[last.ret].num_devices
                    = Len(cl4_devsel_select(ShortcutChain(last.given)))
              /\ UnwrapDevices(dev, ctx[last.ret].devices)
                    = cl4_devsel_select(ShortcutChain(last.given))
              /\ last.given = IndepFilter("platform", 2) =>
                    \A i \in 1..ctx[last.ret].num_devices :
                        PlatformOf(dev[ctx[last.ret].devices[i]].cl_object) = 2

\* C15 witness: the shortcut with the predicate "on platform 2" built a
\* context over device 2 on a two-platform machine.
C15_Witness ==
    /\ last.op = "new_from_indep_filter"
    /\ last.given = IndepFilter("platform", 2)
    /\ machine = <<1, 2>>
    /\ last.err = "NONE"
    /\ UnwrapDevices(dev, ctx[last.ret].devices) = <<2>>

\* The last call was a filter-chain construction that got past the unwrap
\* loop with a selection spanning more than one platform.
MixedSelection ==
    /\ last.op \in FilterOps
    /\ last.path \in {"props_error", "create_error", "ok"}
    /\ \E i \in 1..Len(last.selected) :
          PlatformOf(last.selected[i]) # PlatformOf(last.selected[1])

\* C16: when a selected device is on another platform than the first
\* selected device, the filter-chain constructor raises a warning and still
\* builds the context over all selected devices.
C16_MixedPlatformsWarned ==
    MixedSelection =>
        /\ last.warned
        /\ last.path = "ok" =>
              /\ last.err = "NONE"
              /\ ctx[last.ret].num_devices = Len(last.selected)

\* C17: in the explicit-devices constructor without properties, a failed
\* platform query on the first device gives an error and no context, and
\* no native context is created.
C17_PlatformQueryFailureSurfaced ==
    (last.op = "new_from_cldevices" /\ ~last.properties /\ ~last.platOk) =>
        /\ last.ret = NULL
        /\ last.err # "NONE"
        /\ Len(nat) = last.nat_before

\* C18: a failed native retain in the native-context constructor gives an
\* error and no context, issues no native release, and leaves the native
\* reference counts as they were.
C18_FailedRetainLeavesCount ==
    (last.op = "new_from_clcontext" /\ last.err # "NONE") =>
        /\ last.ret = NULL
        /\ ctx[last.ctx].released = 0
        /\ nat = last.pre.nat

\* C19: when the selection engine fails and returns no list, the
\* filter-chain constructor reports that error, returns no context, and
\* reads nothing through the absent list.
C19_SelectErrorPropagated ==
    (last.op \in FilterOps /\ last.path = "select_error") =>
        /\ last.err = "SELECT"
        /\ last.ret = NULL
        /\ ~last.null_read
        /\ ~crashed

\* What C20 says of each state.
C20_State ==
    /\ (last.op \in FilterOps /\ last.err = "NONE") =>
          /\ ctx[last.ret].num_devices = Len(last.selected)
          /\ ctx[last.ret].devices = last.devs
          /\ \A i \in 1..Len(last.devs) :
                /\ dev[last.devs[i]].cl_object = last.selected[i]
                /\ dev[last.devs[i]].ref_count = 1
                /\ ~dev[last.devs[i]].freed
    /\ (last.op = "get_device" /\ ctx[last.ctx].origin = "filters"
            /\ last.index < ctx[last.ctx].num_devices) =>
          /\ ~last.queried
          /\ last.ret = ctx[last.ctx].devices[last.index + 1]

\* What C20 says of each step, for a context c built from a filter chain
\* and held by the client: its array is never replaced, and the destroy
\* that reaches 0 releases each of its wrappers exactly once, which frees
\* those the client did not retain.
C20_Step ==
    \A c \in DOMAIN ctx :
        (Live(c) /\ ctx[c].origin = "filters") =>
            /\ ctx'[c].devices = ctx[c].devices
            /\ ctx'[c].num_devices = ctx[c].num_devices
            /\ (last'.op = "destroy" /\ last'.ctx = c /\ ctx[c].ref_count = 1) =>
                  \A i \in 1..ctx[c].num_devices :
                      /\ dev'[ctx[c].devices[i]].ref_count
                            = dev[ctx[c].devices[i]].ref_count - 1
                      /\ dev[ctx[c].devices[i]].caller = 0 =>
                            dev'[ctx[c].devices[i]].freed

\* C20: on success the filter-chain constructor adopts the selection's
\* wrappers: num_devices is the selection's length, device i of the context
\* is the wrapper the selection made at position i, its count still 1,
\* get_device hands out that same wrapper, and the destroy of the context
\* releases each exactly once.
C20_SelectionAdopted == []C20_State /\ [][C20_Step]_vars

\* C20 witness: a context built from a selection of two devices was
\* destroyed, and both wrappers the selection made are freed.
C20_Witness ==
    /\ last.op = "destroy"
    /\ ctx[last.ctx].origin = "filters"
    /\ ctx[last.ctx].freed
    /\ ctx[last.ctx].num_devices = 2
    /\ \A i \in 1..2 : dev[ctx[last.ctx].devices[i]].freed
    /\ ctx[last.ctx].devices[1] # ctx[last.ctx].devices[2]

\* What C21 says of a step.
C21_Step ==
    /\ last'.op = "new_from_cldevices" =>
          /\ \A w \in DOMAIN dev : dev'[w] = dev[w]
          /\ \A i \in 1..Len(last'.devs) :
                /\ last'.devs[i] \notin DOMAIN dev
                /\ dev'[last'.devs[i]].cl_object = last'.handles[i]
                /\ \A j \in 1..Len(last'.devs) :
                      i # j => last'.devs[i] # last'.devs[j]
    /\ \A c \in DOMAIN ctx :
          (last'.op = "destroy" /\ last'.ctx = c /\ ctx[c].origin = "cldevices") =>
              \A w \in DOMAIN dev :
                  (\A i \in 1..Len(ctx[c].devices) : ctx[c].devices[i] # w) =>
                      dev'[w] = dev[w]

\* C21: the explicit-devices constructor makes a new device wrapper for each
\* input handle and changes no wrapper that existed before, whatever handle
\* it wraps; the destroy of such a context changes no wrapper outside the
\* context's own array.
C21_NewWrapperPerHandle == [][C21_Step]_vars

\* C21 witness: the client held the platform's wrapper of device 1, built a
\* context from the handle of device 1 and destroyed it: the context's own
\* wrapper of device 1 is freed, the client's still has its count of 1.
C21_Witness ==
    /\ last.op = "destroy"
    /\ ctx[last.ctx].origin = "cldevices"
    /\ ctx[last.ctx].freed
    /\ dev[1].caller = 1 /\ dev[1].ref_count = 1 /\ ~dev[1].freed
    /\ dev[1].cl_object = 1
    /\ ctx[last.ctx].devices[1] # 1
    /\ dev[ctx[last.ctx].devices[1]].cl_object = 1
    /\ dev[ctx[last.ctx].devices[1]].freed

\* C22: for every context wrapper the client holds: when the device array
\* is there, num_devices is its length and the length of the native
\* context's device list, and every slot holds a device wrapper that is
\* alive; when it is not there, num_devices is 0.
C22_DeviceArrayInvariant ==
    \A c \in DOMAIN ctx :
        Live(c) =>
            IF Materialized(c)
            THEN /\ ctx[c].num_devices = Len(ctx[c].devices)
                 /\ ctx[c].num_devices = Len(NativeDevices(c))
                 /\ \A i \in 1..ctx[c].num_devices :
                       /\ ctx[c].devices[i] \in DOMAIN dev
                       /\ ~dev[ctx[c].devices[i]].freed
                       /\ dev[ctx[c].devices[i]].ref_count >= 1
            ELSE ctx[c].num_devices = 0

\* C22 witness: the client holds two context wrappers, one with a device
\* array of two devices and one whose device list is not made yet.
C22_Witness ==
    \E a \in DOMAIN ctx, b \in DOMAIN ctx :
        /\ Live(a) /\ Live(b)
        /\ Materialized(a) /\ ctx[a].num_devices = 2
        /\ ~Materialized(b) /\ ctx[b].num_devices = 0

\* What C23 says of a step, for a context c the client holds and whose
\* device list is already there.
C23_Step(c) ==
    /\ ctx'[c].devices = ctx[c].devices
    /\ ctx'[c].num_devices = ctx[c].num_devices
    /\ (last'.op \in {"get_device", "num_devices"} /\ last'.ctx = c) =>
          /\ ~last'.queried
          /\ dev' = dev
          /\ ctx' = ctx
          /\ last'.op = "num_devices" => last'.ret = ctx[c].num_devices
          /\ (last'.op = "get_device" /\ last'.index < ctx[c].num_devices) =>
                last'.ret = ctx[c].devices[last'.index + 1]

\* C23: once the device list of a context is there, no accessor call
\* queries the native device list again or makes a device wrapper, the
\* array is never replaced, and get_device(ctx, i) returns the wrapper the
\* array holds at i.
C23_MaterializedOnce ==
    [][\A c \in DOMAIN ctx : (Live(c) /\ Materialized(c)) => C23_Step(c)]_vars

\* C23 witness: get_device on a wrapper built from a native handle, whose
\* device list an earlier accessor call had made, answered without a query.
C23_Witness ==
    /\ last.op = "get_device"
    /\ WrapsNative(last.ctx)
    /\ Materialized(last.ctx)
    /\ ~last.queried
    /\ last.ret # NULL

\* What C24 says of each state: num_devices whose query failed returned 0
\* with the error set and left the wrapper without a device list.
C24_State ==
    (last.op = "num_devices" /\ last.err # "NONE") =>
        /\ last.queried
        /\ last.ret = 0
        /\ ~Materialized(last.ctx)
        /\ ctx[last.ctx].num_devices = 0

\* What C24 says of each step: an accessor call on a wrapper without a
\* device list makes the query.
C24_Step ==
    \A c \in DOMAIN ctx :
        (Live(c) /\ ~Materialized(c) /\ last'.ctx = c
            /\ last'.op \in {"get_device", "num_devices"}) =>
            last'.queried

\* C24: when the device-list query fails inside num_devices, the call
\* returns 0 with the error set and the wrapper keeps no device list and a
\* count of 0, so that the next accessor call makes the query again.
C24_FailedQueryLeavesUnmaterialized == []C24_State /\ [][C24_Step]_vars

\* C24 witness: num_devices on a wrapper built from a native handle failed
\* in the query and returned 0.
C24_Witness ==
    /\ last.op = "num_devices"
    /\ last.err = "OCL"
    /\ last.ret = 0
    /\ Live(last.ctx)
    /\ ~Materialized(last.ctx)

\* Device wrappers that are not freed and are in no context's array: nothing
\* will ever release them.
Orphans ==
    {w \in DOMAIN dev :
        /\ ~dev[w].freed
        /\ \A c \in DOMAIN ctx :
              \A i \in 1..Len(ctx[c].devices) : ctx[c].devices[i] # w}

\* C25: the lazy initialisation is a check followed by an initialisation
\* with nothing to keep two threads apart: an array of device wrappers can
\* be overwritten and lost, and that only happens in a run where a call was
\* started while another thread was inside one.
C25_OrphanOnlyIfOverlapped == Orphans # {} => thr.overlapped

\* C25 witness: two threads both made the device list of one context; the
\* context was destroyed since, and the wrapper of the overwritten array is
\* still there with its count of 1.
C25_Witness ==
    /\ AllIdle
    /\ \E c \in DOMAIN ctx : ctx[c].returned /\ ctx[c].freed /\ Materialized(c)
    /\ \A c \in DOMAIN ctx : ctx[c].returned => ctx[c].freed
    /\ \E w \in Orphans : dev[w].ref_count = 1

\* The last call was a constructor, and what it handed back agrees with the
\* error output: a context with reference count 1 and no error, or no
\* context and an error.
ResultAgreesWithError ==
    /\ last.ret # NULL <=> last.err = "NONE"
    /\ last.ret # NULL =>
          /\ Live(last.ret)
          /\ ctx[last.ret].ref_count = 1

\* Every constructor call that returned did so with a result that agrees
\* with the error output.
ReturnedConsistent ==
    (last.op \in ConstructorOps /\ ~crashed) => ResultAgreesWithError

\* C26: every call of one of the four constructors returns, and returns a
\* context with reference count 1 exactly when the error output is unset
\* and no context exactly when it is set.
C26_ExitAssertions ==
    last.op \in ConstructorOps => (~crashed /\ ResultAgreesWithError)

====
